---- MODULE Spec2Model ----
(***************************************************************************)
(* A model of src/split_gpt.py: the draw.io layer splitter.                *)
(*                                                                         *)
(* The source tree is the sequence of the elements of the <root>           *)
(* container in document order (mx_root.iter() order).  The container is   *)
(* flat, as draw.io writes it: the sub-elements of a cell (mxGeometry,     *)
(* ...) carry neither id nor parent and are opaque payload of the cell.    *)
(* An element is a record of the attributes the code reads.  An attribute  *)
(* that is missing has the value None; attributes are never the empty      *)
(* string.  Labels and file names are sequences of one-character strings.  *)
(*                                                                         *)
(* id_index and children hold element REFERENCES: here, positions in the   *)
(* source tree, so that a write through a reference would show in doc.     *)
(*                                                                         *)
(* The iteration order of the two Python sets of ids (in_layer_ids,        *)
(* cross_edge_ids) depends on the hash seed of the process: every order is *)
(* a possible one.  The loader's failures (no diagram, no mxGraphModel, no *)
(* root) are not part of the model: every source has its root container.   *)
(***************************************************************************)
EXTENDS Integers, Sequences, FiniteSets, TLC

VARIABLES
    pc,         \* position of the program
    doc,        \* the parsed source tree (mx_root_src), as it is now
    parsed,     \* the source tree as the parser delivered it (history)
    id_index,   \* id -> position of the element carrying it
    children,   \* parent id -> sequence of positions, document order
    layers,     \* positions of the layer cells, document order
    next,       \* number of layers exported so far
    outputs,    \* the documents built by _export_layer, one per layer done
    files,      \* the destination directory: file name -> document
    run,        \* 1 or 2: which invocation of the tool this is
    prevFiles,  \* the destination directory at the end of the first run
    label,      \* sanitize_filename's argument
    fname,      \* sanitize_filename's result
    topEl,      \* position of the element _top_layer_id is applied to
    topSt,      \* the local state of _top_layer_id's loop
    bfs,        \* the local state of _collect_cells_for_layer's loop
    addLog      \* the ids passed to result_ids.add, in order

vars == <<pc, doc, parsed, id_index, children, layers, next, outputs, files,
          run, prevFiles, label, fname, topEl, topSt, bfs, addLog>>

----------------------------------------------------------------------------
(* Bounds of the model. *)

\* number of free cells of a tree-shaped source (DocsTree)
NumCells == 4

\* number of free cells of the tree-shaped sources whose traversals are
\* taken step by step (DocsWalk)
NumWalkCells == 3

\* longest label given to sanitize_filename on its own (SpecSanitize)
MaxLabelLen == 3

----------------------------------------------------------------------------
(* Values. *)

\* attrib.get(...) of a missing attribute
None == "<none>"

\* the scaffolding ids of _add_base_cells
BaseIds == <<"0", "1">>

\* 'Unnamed_Layer'
UnnamedLayer == <<"U","n","n","a","m","e","d","_","L","a","y","e","r">>

\* the extension appended to the sanitized label
Extension == <<".drawio">>

Cell(tag, id, parent, edge, source, target, value) ==
    [tag |-> tag, id |-> id, parent |-> parent, edge |-> edge,
     source |-> source, target |-> target, value |-> value]

\* a missing or empty value attribute (`value or ...` treats both alike)
NoValue == <<>>

Vertex(id, parent) == Cell("mxCell", id, parent, None, None, None, NoValue)

Indices(n) == [i \in 1..n |-> i]

SeqToSet(s) == {s[i] : i \in 1..Len(s)}

\* the orders in which a set can be iterated
Perms(S) ==
    {o \in [1..Cardinality(S) -> S] :
        \A i, j \in 1..Cardinality(S) : i # j => o[i] # o[j]}

Max(S) == CHOOSE m \in S : \A x \in S : x <= m

----------------------------------------------------------------------------
(* sanitize_filename *)

\* the characters the labels of the model are made of: an ASCII letter, a
\* digit, the three punctuation marks the pattern names, a slash, a space,
\* a non-ASCII letter (U+00E9, e acute) and a unicode dash (U+2013); a
\* character is a token, so these two are written by their code points
Alphabet == {"a", "7", "_", "-", ".", "/", " ", "U+00E9", "U+2013"}

\* what \w matches in a str pattern: unicode letters and digits, underscore
PyWordChars == {"a", "7", "_", "U+00E9", "U", "n", "m", "e", "d", "L", "y", "r", "N"}

\* the complement of the class [^\w\-_\.]
KeptChars == PyWordChars \cup {"-", "_", "."}

\* [A-Za-z0-9_.-]
AsciiSafe == {"a", "7", "_", "-", ".", "U", "n", "m", "e", "d", "L", "y", "r", "N"}

RECURSIVE DropRun(_)
DropRun(s) ==
    IF s = <<>> \/ Head(s) \in KeptChars THEN s ELSE DropRun(Tail(s))

\* re.sub(r'[^\w\-_\.]+', '_', name): each maximal run becomes one '_'
RECURSIVE ReSub(_)
ReSub(s) ==
    IF s = <<>> THEN <<>>
    ELSE IF Head(s) \in KeptChars THEN <<Head(s)>> \o ReSub(Tail(s))
    ELSE <<"_">> \o ReSub(DropRun(s))

RECURSIVE LStrip(_)
LStrip(s) == IF s # <<>> /\ Head(s) = "_" THEN LStrip(Tail(s)) ELSE s

RECURSIVE RStrip(_)
RStrip(s) ==
    IF s # <<>> /\ s[Len(s)] = "_" THEN RStrip(SubSeq(s, 1, Len(s) - 1)) ELSE s

\* str.strip("_")
Strip(s) == RStrip(LStrip(s))

sanitize_filename(name) ==
    LET n == IF name = <<>> THEN UnnamedLayer ELSE name
    IN  Strip(ReSub(n))

----------------------------------------------------------------------------
(* _build_indices *)

IdsOf(tree) == {tree[i].id : i \in 1..Len(tree)} \ {None}

ParentsOf(tree) == {tree[i].parent : i \in 1..Len(tree)} \ {None}

\* id_index[el_id] = el, a later element replacing an earlier one
BuildIdIndex(tree) ==
    [id \in IdsOf(tree) |-> Max({i \in 1..Len(tree) : tree[i].id = id})]

\* children[parent].append(el)
BuildChildren(tree) ==
    [p \in ParentsOf(tree) |->
        SelectSeq(Indices(Len(tree)), LAMBDA i : tree[i].parent = p)]

\* mx_root_src.findall('.//mxCell[@parent="0"]')
FindLayers(tree) ==
    SelectSeq(Indices(Len(tree)),
              LAMBDA i : tree[i].tag = "mxCell" /\ tree[i].parent = "0")

\* children.get(cur, [])
ChildrenGet(kids, cur) == IF cur \in DOMAIN kids THEN kids[cur] ELSE <<>>

----------------------------------------------------------------------------
(* _top_layer_id: one iteration of its loop, and the loop *)

TopStart(i) == [cur |-> i, seen |-> {}, returned |-> FALSE, ret |-> None, iters |-> 0]

TopStepFn(tree, idx, st) ==
    LET pid == tree[st.cur].parent
        n   == st.iters + 1
    IN  IF pid = None
        THEN [st EXCEPT !.returned = TRUE, !.ret = None, !.iters = n]
        ELSE IF pid = "0"
        THEN [st EXCEPT !.returned = TRUE, !.ret = tree[st.cur].id, !.iters = n]
        ELSE IF pid \in st.seen
        THEN [st EXCEPT !.returned = TRUE, !.ret = None, !.iters = n]
        ELSE IF pid \notin DOMAIN idx
        THEN [st EXCEPT !.seen = @ \cup {pid}, !.returned = TRUE, !.ret = None,
                        !.iters = n]
        ELSE [st EXCEPT !.seen = @ \cup {pid}, !.cur = idx[pid], !.iters = n]

RECURSIVE TopLoop(_, _, _)
TopLoop(tree, idx, st) ==
    IF st.returned THEN st.ret ELSE TopLoop(tree, idx, TopStepFn(tree, idx, st))

_top_layer_id(tree, idx, i) == TopLoop(tree, idx, TopStart(i))

----------------------------------------------------------------------------
(* _collect_cells_for_layer: one iteration of its loop, and the loop *)

CollectStart(layer_id) ==
    [queue |-> <<layer_id>>, result_ids |-> {}, did_add |-> FALSE, iters |-> 0]

\* the ids of the children of cur that have one, in order
ChildIds(tree, kids, cur) ==
    LET withId == SelectSeq(ChildrenGet(kids, cur), LAMBDA i : tree[i].id # None)
    IN  [k \in 1..Len(withId) |-> tree[withId[k]].id]

\* a traversal without the `if cur in result_ids: continue` guard
CollectStepNoGuard(tree, kids, st) ==
    LET cur == Head(st.queue)
    IN  [queue |-> Tail(st.queue) \o ChildIds(tree, kids, cur),
         result_ids |-> st.result_ids \cup {cur},
         did_add |-> TRUE, iters |-> st.iters + 1]

\* a traversal that takes the layer's direct children only
CollectStepShallow(tree, kids, st) ==
    LET cur == Head(st.queue)
    IN  IF cur \in st.result_ids
        THEN [st EXCEPT !.queue = Tail(@), !.did_add = FALSE, !.iters = @ + 1]
        ELSE [queue |-> Tail(st.queue) \o
                        (IF st.result_ids = {} THEN ChildIds(tree, kids, cur) ELSE <<>>),
              result_ids |-> st.result_ids \cup {cur},
              did_add |-> TRUE, iters |-> st.iters + 1]

CollectStepFn(tree, kids, st) ==
    LET cur == Head(st.queue)
    IN  IF cur \in st.result_ids
        THEN [st EXCEPT !.queue = Tail(@), !.did_add = FALSE, !.iters = @ + 1]
        ELSE [queue |-> Tail(st.queue) \o ChildIds(tree, kids, cur),
              result_ids |-> st.result_ids \cup {cur},
              did_add |-> TRUE, iters |-> st.iters + 1]

RECURSIVE CollectLoop(_, _, _)
CollectLoop(tree, kids, st) ==
    IF st.queue = <<>> THEN st.result_ids
    ELSE CollectLoop(tree, kids, CollectStepFn(tree, kids, st))

_collect_cells_for_layer(tree, kids, layer_id) ==
    CollectLoop(tree, kids, CollectStart(layer_id))

----------------------------------------------------------------------------
(* _add_base_cells, _relocate_parent, _export_layer *)

\* mx_root_src.find('.//*[@id="..."]'): the first element carrying the id
FindById(tree, id) ==
    LET hits == {i \in 1..Len(tree) : tree[i].id = id}
    IN  IF hits = {} THEN 0 ELSE CHOOSE i \in hits : \A j \in hits : i <= j

RECURSIVE BaseCopies(_, _)
BaseCopies(tree, ids) ==
    IF ids = <<>> THEN <<>>
    ELSE LET base == FindById(tree, Head(ids))
         IN  (IF base # 0 THEN <<tree[base]>> ELSE <<>>) \o BaseCopies(tree, Tail(ids))

\* scaffolding without the root cell "0"
AddBaseCellsDefaultOnly(tree) == BaseCopies(tree, <<"1">>)

_add_base_cells(tree) == BaseCopies(tree, BaseIds)

\* the parent is written into the source element itself, not into a copy
RelocateParentInPlace(tree, i, new_parent_id) ==
    [elem |-> [tree[i] EXCEPT !.parent = new_parent_id],
     tree |-> [tree EXCEPT ![i].parent = new_parent_id]]

\* the copy keeps the parent of the source
RelocateParentKeep(tree, i, new_parent_id) == [elem |-> tree[i], tree |-> tree]

\* deepcopy(elem), then the copy's parent is set: the source tree is as before
_relocate_parent(tree, i, new_parent_id) ==
    [elem |-> [tree[i] EXCEPT !.parent = new_parent_id], tree |-> tree]

EdgeTouches(el, in_layer_ids) ==
    \/ el.source # None /\ el.source \in in_layer_ids
    \/ el.target # None /\ el.target \in in_layer_ids

\* an edge scan that looks at the source end only
CrossEdgeIdsSourceOnly(tree, idx, kids, in_layer_ids) ==
    LET edges == {id \in DOMAIN idx :
                    /\ tree[idx[id]].tag = "mxCell"
                    /\ tree[idx[id]].edge = "1"
                    /\ tree[idx[id]].source # None
                    /\ tree[idx[id]].source \in in_layer_ids}
        labels == UNION {{tree[i].id : i \in {j \in SeqToSet(ChildrenGet(kids, e)) :
                                                  tree[j].tag = "mxCell"}} : e \in edges}
    IN  edges \cup labels

\* cross_edge_ids: the edges touching the layer, then the labels of these
\* edges (a label without id adds None)
CrossEdgeIds(tree, idx, kids, in_layer_ids) ==
    LET edges == {id \in DOMAIN idx :
                    /\ tree[idx[id]].tag = "mxCell"
                    /\ tree[idx[id]].edge = "1"
                    /\ EdgeTouches(tree[idx[id]], in_layer_ids)}
        labels == UNION {{tree[i].id : i \in {j \in SeqToSet(ChildrenGet(kids, e)) :
                                                  tree[j].tag = "mxCell"}} : e \in edges}
    IN  edges \cup labels

\* ids of the elements of a root container that have one
AddedIds(root) == {root[k].id : k \in 1..Len(root)} \ {None}

\* step 1 of the assembly, over in_layer_ids in the order o1
RECURSIVE AddInLayer(_, _, _, _)
AddInLayer(tree, idx, root, o1) ==
    IF o1 = <<>> THEN root
    ELSE AddInLayer(tree, idx, Append(root, tree[idx[Head(o1)]]), Tail(o1))

\* step 2 of the assembly, over cross_edge_ids in the order o2; st holds the
\* source tree and the root container under construction
RECURSIVE AddCross(_, _, _, _)
AddCross(st, idx, layer_id, o2) ==
    IF o2 = <<>> THEN st
    ELSE LET i == idx[Head(o2)]
             r == IF st.tree[i].parent # layer_id
                  THEN _relocate_parent(st.tree, i, layer_id)
                  ELSE [elem |-> st.tree[i], tree |-> st.tree]
         IN  AddCross([tree |-> r.tree, root |-> Append(st.root, r.elem)],
                      idx, layer_id, Tail(o2))

\* the ids step 1 appends: in_layer_ids, less those already added and those
\* id_index does not know
InLayerToAdd(tree, idx, li, in_layer_ids) ==
    {id \in in_layer_ids :
        /\ id \in DOMAIN idx
        /\ id \notin AddedIds(_add_base_cells(tree) \o <<tree[li]>>)}

\* the ids step 2 appends
CrossToAdd(tree, idx, kids, li, in_layer_ids) ==
    {id \in CrossEdgeIds(tree, idx, kids, in_layer_ids) :
        /\ id \in DOMAIN idx
        /\ id \notin AddedIds(_add_base_cells(tree) \o <<tree[li]>>)
        /\ id \notin in_layer_ids}

\* _export_layer for the layer cell at position li, given the closure and
\* the orders in which the two sets are iterated
ExportWith(tree, idx, kids, li, in_layer_ids, o1, o2) ==
    LET layer_id    == tree[li].id
        layer_label == IF tree[li].value = NoValue THEN UnnamedLayer ELSE tree[li].value
        root0 == _add_base_cells(tree) \o <<tree[li]>>
        root1 == AddInLayer(tree, idx, root0, o1)
        st    == AddCross([tree |-> tree, root |-> root1], idx, layer_id, o2)
    IN  [layer |-> li, layer_id |-> layer_id, name |-> layer_label,
         root |-> st.root, tree |-> st.tree,
         out_name |-> sanitize_filename(layer_label) \o Extension]

\* what _export_layer can build: one document for each order in which the
\* two sets of ids can be iterated
Exports(tree, idx, kids, li, in_layer_ids) ==
    {ExportWith(tree, idx, kids, li, in_layer_ids, o1, o2) :
        o1 \in Perms(InLayerToAdd(tree, idx, li, in_layer_ids)),
        o2 \in Perms(CrossToAdd(tree, idx, kids, li, in_layer_ids))}

\* ET.ElementTree(new_mxfile).write(out_path): a file of the same name is replaced
WriteFile(fs, out) ==
    [n \in DOMAIN fs \cup {out.out_name} |->
        IF n = out.out_name THEN [name |-> out.name, root |-> out.root] ELSE fs[n]]

----------------------------------------------------------------------------
(* The sources the tool is run on. *)

CellId(i) == ToString(i)

\* the root cell "0" and n cells "1", "2", ..., each with any of these
\* ids as its parent: chains of any depth, several layers, cells that are
\* their own parent, cycles, cells below a cell that is no layer
TreeParents(n) == {"0"} \cup {CellId(i) : i \in 1..n}

DocsTreeOf(n) ==
    {<<Vertex("0", None)>> \o [i \in 1..n |-> Vertex(CellId(i), ps[i])] :
        ps \in [1..n -> TreeParents(n)]}

DocsTree == DocsTreeOf(NumCells)

\* two layers, a (the default layer "1", or "A") and "B"; a group g and a
\* node n1 in a, a node n2 in B; an edge element E and an element l
EdgeEnds == {<<"n1", "n2">>, <<"n2", "n1">>, <<"n1", None>>, <<"n1", "n1">>,
             <<"g", "B">>, <<"n2", "X">>}

\* "@" in a choice stands for the id of layer a
At(x, a) == IF x = "@" THEN a ELSE x

DocsEdge ==
    {<<Vertex("0", None), Vertex(a, "0"), Vertex("B", "0"), Vertex("g", a),
       Vertex("n1", At(p1, a)), Vertex("n2", "B"),
       Cell(et, "E", At(ep, a), "1", ends[1], ends[2], NoValue),
       Cell(lt, lid, At(lp, a), None, None, None, NoValue)>> :
        a \in {"1", "A"}, p1 \in {"@", "g"}, et \in {"mxCell", "object"},
        ep \in {"@", "B", "g", None, "X"}, ends \in EdgeEnds,
        lt \in {"mxCell", "object"}, lid \in {"l", None, "E"}, lp \in {"E", "@"}}

\* three cells whose id and parent are any of "0", "1", "2" or missing:
\* shared ids, a source without "0" or "1", a root cell with a parent
FreeAttr == {"0", "1", "2", None}

DocsFree ==
    {[i \in 1..3 |-> Vertex(at[i][1], at[i][2])] :
        at \in [1..3 -> FreeAttr \X FreeAttr]}

\* three layers, the default layer among them, with their labels
LayerLabels == {NoValue, <<"N">>, <<"N", "/">>, <<"/">>, <<"U+00E9">>}

DocsLabels ==
    {<<Vertex("0", None),
       Cell("mxCell", "1", "0", None, None, None, NoValue),
       Cell("mxCell", "2", "0", None, None, None, v2),
       Cell("mxCell", "3", "0", None, None, None, v3),
       Vertex("4", "2")>> : v2, v3 \in LayerLabels}

Docs == DocsTree \cup DocsEdge \cup DocsFree \cup DocsLabels

\* the sources of the runs that are repeated
DocsRerun == DocsTree \cup DocsLabels

\* the sources of the runs whose traversals are taken step by step
DocsWalk == DocsTreeOf(NumWalkCells) \cup DocsFree

\* the labels sanitize_filename is applied to on its own
Labels == UNION {[1..n -> Alphabet] : n \in 0..MaxLabelLen}

----------------------------------------------------------------------------
(* The program. *)

Idle ==
    /\ parsed = <<>> /\ id_index = <<>> /\ children = <<>> /\ layers = <<>>
    /\ next = 0 /\ outputs = <<>> /\ files = <<>> /\ run = 1 /\ prevFiles = <<>>
    /\ fname = <<>> /\ topSt = TopStart(0) /\ bfs = CollectStart(None)
    /\ addLog = <<>>

\* export_layers on a source: the tree as ET.parse delivers it
Init ==
    /\ pc = "start"
    /\ doc \in Docs
    /\ label = <<>> /\ topEl = 0
    /\ Idle

InitRerun ==
    /\ pc = "start"
    /\ doc \in DocsRerun
    /\ label = <<>> /\ topEl = 0
    /\ Idle

InitWalk ==
    /\ pc = "wstart"
    /\ doc \in DocsWalk
    /\ topEl \in 1..Len(doc)
    /\ label = <<>>
    /\ Idle

InitSanitize ==
    /\ pc = "sanitize"
    /\ doc = <<>>
    /\ label \in Labels
    /\ topEl = 0
    /\ Idle

\* export_layers up to its loop: the indices, the layers, and the error
\* raised when there is no layer
Load(here, onward) ==
    /\ pc = here
    /\ parsed' = doc
    /\ id_index' = BuildIdIndex(doc)
    /\ children' = BuildChildren(doc)
    /\ layers' = FindLayers(doc)
    /\ pc' = IF FindLayers(doc) = <<>> /\ onward = "export" THEN "error" ELSE onward

BuildIndices ==
    /\ Load("start", "export")
    /\ UNCHANGED <<doc, next, outputs, files, run, prevFiles, label, fname,
                   topEl, topSt, bfs, addLog>>

\* the body of export_layers' loop given the closure: the document is built
\* and written, and the loop goes on to the next layer
Emit(in_layer_ids, again) ==
    \E out \in Exports(doc, id_index, children, layers[next + 1], in_layer_ids) :
        /\ doc' = out.tree
        /\ outputs' = Append(outputs,
                             [layer |-> out.layer, layer_id |-> out.layer_id,
                              name |-> out.name, root |-> out.root,
                              out_name |-> out.out_name])
        /\ files' = WriteFile(files, out)
        /\ next' = next + 1
        /\ pc' = IF next + 1 = Len(layers) THEN "done" ELSE again

\* one iteration of export_layers' loop: _export_layer on the next layer
ExportLayer ==
    /\ pc = "export"
    /\ next < Len(layers)
    /\ Emit(_collect_cells_for_layer(doc, children, doc[layers[next + 1]].id), "export")
    /\ UNCHANGED <<parsed, id_index, children, layers, run, prevFiles, label,
                   fname, topEl, topSt, bfs, addLog>>

\* the tool is started again on the same input and destination
Rerun ==
    /\ pc = "done"
    /\ run = 1
    /\ run' = 2
    /\ prevFiles' = files
    /\ pc' = "start"
    /\ doc' = parsed
    /\ parsed' = <<>> /\ id_index' = <<>> /\ children' = <<>> /\ layers' = <<>>
    /\ next' = 0 /\ outputs' = <<>>
    /\ UNCHANGED <<files, label, fname, topEl, topSt, bfs, addLog>>

\* sanitize_filename applied to a label
Sanitize ==
    /\ pc = "sanitize"
    /\ fname' = sanitize_filename(label)
    /\ pc' = "sanitized"
    /\ UNCHANGED <<doc, parsed, id_index, children, layers, next, outputs, files,
                   run, prevFiles, label, topEl, topSt, bfs, addLog>>

(* The same program with the two traversals taken one iteration at a time. *)
(* export_layers never calls _top_layer_id: here it is applied, once the   *)
(* indices are built, to the element at position topEl.                    *)

WalkBuildIndices ==
    /\ Load("wstart", "top")
    /\ topSt' = TopStart(topEl)
    /\ UNCHANGED <<doc, next, outputs, files, run, prevFiles, label, fname,
                   topEl, bfs, addLog>>

\* one iteration of _top_layer_id's loop
TopStep ==
    /\ pc = "top"
    /\ ~topSt.returned
    /\ topSt' = TopStepFn(doc, id_index, topSt)
    /\ UNCHANGED <<pc, doc, parsed, id_index, children, layers, next, outputs,
                   files, run, prevFiles, label, fname, topEl, bfs, addLog>>

\* _top_layer_id has returned; export_layers goes on to its loop
TopReturn ==
    /\ pc = "top"
    /\ topSt.returned
    /\ pc' = IF layers = <<>> THEN "error" ELSE "wlayer"
    /\ UNCHANGED <<doc, parsed, id_index, children, layers, next, outputs,
                   files, run, prevFiles, label, fname, topEl, topSt, bfs, addLog>>

\* _collect_cells_for_layer is entered for the next layer
CollectBegin ==
    /\ pc = "wlayer"
    /\ next < Len(layers)
    /\ bfs' = CollectStart(doc[layers[next + 1]].id)
    /\ addLog' = <<>>
    /\ pc' = "collect"
    /\ UNCHANGED <<doc, parsed, id_index, children, layers, next, outputs,
                   files, run, prevFiles, label, fname, topEl, topSt>>

\* one iteration of _collect_cells_for_layer's loop
CollectStep ==
    /\ pc = "collect"
    /\ bfs.queue # <<>>
    /\ bfs' = CollectStepFn(doc, children, bfs)
    /\ addLog' = IF bfs'.did_add THEN Append(addLog, Head(bfs.queue)) ELSE addLog
    /\ UNCHANGED <<pc, doc, parsed, id_index, children, layers, next, outputs,
                   files, run, prevFiles, label, fname, topEl, topSt>>

\* the queue is empty: the rest of _export_layer
ExportCollected ==
    /\ pc = "collect"
    /\ bfs.queue = <<>>
    /\ Emit(bfs.result_ids, "wlayer")
    /\ UNCHANGED <<parsed, id_index, children, layers, run, prevFiles, label,
                   fname, topEl, topSt, bfs, addLog>>

Next == BuildIndices \/ ExportLayer

NextRerun == BuildIndices \/ ExportLayer \/ Rerun

NextWalk ==
    \/ WalkBuildIndices \/ TopStep \/ TopReturn
    \/ CollectBegin \/ CollectStep \/ ExportCollected

Spec == Init /\ [][Next]_vars

SpecRerun == InitRerun /\ [][NextRerun]_vars

SpecWalk == InitWalk /\ [][NextWalk]_vars

SpecSanitize == InitSanitize /\ [][Sanitize]_vars

----------------------------------------------------------------------------
(* What the claims speak of, stated without the code's traversals. *)

\* S and the parents of every element carrying an id of S, and so on
RECURSIVE UpClose(_, _)
UpClose(tree, S) ==
    LET T == S \cup {tree[i].parent : i \in {j \in 1..Len(tree) : tree[j].id \in S}}
        U == T \ {None}
    IN  IF U = S THEN S ELSE UpClose(tree, U)

\* the ids on the parent chain of the element at position x
Ancestors(tree, x) == UpClose(tree, {tree[x].parent} \ {None})

\* the transitive closure of the layer with id lid: the ids of the elements
\* whose parent chain reaches lid, and lid
ClosureIds(tree, lid) ==
    {tree[x].id : x \in {y \in 1..Len(tree) :
                            tree[y].id # None /\ lid \in Ancestors(tree, y)}}
    \cup {lid}

UniqueIds(tree) ==
    \A i, j \in 1..Len(tree) : i # j /\ tree[i].id # None => tree[i].id # tree[j].id

\* no other element carries the id of the element at position e
OwnId(tree, e) == \A j \in 1..Len(tree) : j # e => tree[j].id # tree[e].id

\* the root cell "0" declares no parent
RootHasNoParent(tree) ==
    \A i \in 1..Len(tree) : tree[i].id = "0" => tree[i].parent = None

\* the cell "1", if there is one, is the default layer or declares no parent
DefaultIsLayer(tree) ==
    \A i \in 1..Len(tree) : tree[i].id = "1" => tree[i].parent \in {None, "0"}

HasId(root, id) == \E r \in 1..Len(root) : root[r].id = id

\* the outputs of two distinct layers that have ids
TwoLayers(ka, kb) ==
    /\ ka # kb
    /\ outputs[ka].layer_id # None
    /\ outputs[kb].layer_id # None

\* the edge at position e has its source in A's closure and its target in B's
Spans(e, lidA, lidB) ==
    /\ parsed[e].edge = "1"
    /\ parsed[e].id # None
    /\ parsed[e].source # None
    /\ parsed[e].target # None
    /\ parsed[e].source \in ClosureIds(parsed, lidA)
    /\ parsed[e].target \in ClosureIds(parsed, lidB)

\* the edge at position e touches the layers A and B
Touches(e, lidA, lidB) == Spans(e, lidA, lidB) \/ Spans(e, lidB, lidA)

----------------------------------------------------------------------------
(* C1 *)

\* every element with an id whose parent chain reaches the id of a layer is
\* in the document built for that layer, at any depth
ClosureInOutput ==
    \A k \in 1..Len(outputs) :
        outputs[k].layer_id # None =>
            \A x \in 1..Len(parsed) :
                (parsed[x].id # None /\ outputs[k].layer_id \in Ancestors(parsed, x))
                    => HasId(outputs[k].root, parsed[x].id)

\* the ids whose top-level ancestor, by _top_layer_id, is lid
TopSet(lid) ==
    {parsed[x].id : x \in {y \in 1..Len(parsed) :
                              /\ parsed[y].id # None
                              /\ _top_layer_id(parsed, id_index, y) = lid}}

ClosureIsTopSet(k) ==
    LET lid == parsed[layers[k]].id
    IN  lid # None =>
            _collect_cells_for_layer(parsed, children, lid) = TopSet(lid) \cup {lid}

----------------------------------------------------------------------------
(* C2 *)

EdgeInBoth(ka, kb, e) ==
    /\ HasId(outputs[ka].root, parsed[e].id)
    /\ HasId(outputs[kb].root, parsed[e].id)

\* C2 as stated: an edge element with an id whose source is in the closure
\* of layer A and whose target is in the closure of another layer B is in
\* the output of A and in the output of B
C2_AsStated ==
    \A ka, kb \in 1..Len(outputs) : \A e \in 1..Len(parsed) :
        (TwoLayers(ka, kb) /\ Spans(e, outputs[ka].layer_id, outputs[kb].layer_id))
            => EdgeInBoth(ka, kb, e)

\* C2 as amended: the same for an edge that is an mxCell and whose id no
\* other element of the source carries
C2_CrossEdgeSymmetry ==
    \A ka, kb \in 1..Len(outputs) : \A e \in 1..Len(parsed) :
        (/\ TwoLayers(ka, kb)
         /\ Spans(e, outputs[ka].layer_id, outputs[kb].layer_id)
         /\ parsed[e].tag = "mxCell"
         /\ OwnId(parsed, e))
            => EdgeInBoth(ka, kb, e)

\* both layers are exported and hold an mxCell edge that spans them and whose
\* parent is neither layer
C2_Witness ==
    /\ pc = "done"
    /\ \E ka, kb \in 1..Len(outputs) : \E e \in 1..Len(parsed) :
        /\ TwoLayers(ka, kb)
        /\ Spans(e, outputs[ka].layer_id, outputs[kb].layer_id)
        /\ parsed[e].tag = "mxCell"
        /\ OwnId(parsed, e)
        /\ parsed[e].parent \notin {outputs[ka].layer_id, outputs[kb].layer_id}
        /\ EdgeInBoth(ka, kb, e)

----------------------------------------------------------------------------
(* C3 *)

\* C3: in the root container of every output no id is carried by more than
\* one element
C3_NoDuplication ==
    \A k \in 1..Len(outputs) : \A i, j \in 1..Len(outputs[k].root) :
        (i # j /\ outputs[k].root[i].id # None)
            => outputs[k].root[i].id # outputs[k].root[j].id

----------------------------------------------------------------------------
(* C4 *)

\* C4 as stated: the copy of an edge that touches layer A and another layer
\* B has, in A's output, A's id as its parent
C4_AsStated ==
    \A ka, kb \in 1..Len(outputs) : \A e \in 1..Len(parsed) :
        (TwoLayers(ka, kb) /\ Touches(e, outputs[ka].layer_id, outputs[kb].layer_id))
            => \A r \in 1..Len(outputs[ka].root) :
                    outputs[ka].root[r].id = parsed[e].id
                        => outputs[ka].root[r].parent = outputs[ka].layer_id

\* the edge is copied as it is: it is in the layer's own closure, or it is
\* one of the scaffolding cells
KeepsParent(e, lid) ==
    \/ parsed[e].id \in ClosureIds(parsed, lid)
    \/ \E b \in 1..Len(BaseIds) : parsed[e].id = BaseIds[b]

\* C4 as amended: the copy of an edge (whose id no other element carries)
\* that touches layer A and another layer B has, in A's output, A's id as
\* its parent, unless the edge belongs to A's own closure or is a scaffolding
\* cell: then the copy has the parent the edge has in the source
C4_Reparenting ==
    \A ka, kb \in 1..Len(outputs) : \A e \in 1..Len(parsed) :
        (/\ TwoLayers(ka, kb)
         /\ Touches(e, outputs[ka].layer_id, outputs[kb].layer_id)
         /\ OwnId(parsed, e))
            => \A r \in 1..Len(outputs[ka].root) :
                    outputs[ka].root[r].id = parsed[e].id
                        => outputs[ka].root[r].parent =
                              IF KeepsParent(e, outputs[ka].layer_id)
                              THEN parsed[e].parent
                              ELSE outputs[ka].layer_id

\* an edge whose parent is a group nested in layer A spans A and B: its copy
\* in A's output has the group as parent, its copy in B's output has B
C4_Witness ==
    /\ pc = "done"
    /\ \E ka, kb \in 1..Len(outputs) : \E e, g \in 1..Len(parsed) :
        /\ TwoLayers(ka, kb)
        /\ Touches(e, outputs[ka].layer_id, outputs[kb].layer_id)
        /\ OwnId(parsed, e)
        /\ parsed[e].tag = "mxCell"
        /\ parsed[e].parent = parsed[g].id
        /\ parsed[g].parent = outputs[ka].layer_id
        /\ \E r \in 1..Len(outputs[ka].root) :
            /\ outputs[ka].root[r].id = parsed[e].id
            /\ outputs[ka].root[r].parent = parsed[g].id
        /\ \E r \in 1..Len(outputs[kb].root) :
            /\ outputs[kb].root[r].id = parsed[e].id
            /\ outputs[kb].root[r].parent = outputs[kb].layer_id

----------------------------------------------------------------------------
(* C5 *)

ParentsPresent ==
    \A k \in 1..Len(outputs) : \A r \in 1..Len(outputs[k].root) :
        outputs[k].root[r].parent # None
            => HasId(outputs[k].root, outputs[k].root[r].parent)

\* C5 as stated: in a source with unique ids that has the cell "0", every
\* element of an output that has a parent names an id of the same output
C5_AsStated ==
    (UniqueIds(parsed) /\ "0" \in IdsOf(parsed)) => ParentsPresent

\* C5 as amended: the same when, besides, the root cell "0" declares no
\* parent and the cell "1", if there is one, has the parent "0" or none
C5_ParentConsistency ==
    (/\ UniqueIds(parsed)
     /\ "0" \in IdsOf(parsed)
     /\ RootHasNoParent(parsed)
     /\ DefaultIsLayer(parsed))
        => ParentsPresent

\* an output holds a native element below a group, a cross-layer edge and a
\* label of that edge, both moved under the layer
C5_Witness ==
    /\ pc = "done"
    /\ UniqueIds(parsed) /\ "0" \in IdsOf(parsed)
    /\ RootHasNoParent(parsed) /\ DefaultIsLayer(parsed)
    /\ \E k \in 1..Len(outputs) : \E e, l, n \in 1..Len(parsed) :
        /\ parsed[e].edge = "1"
        /\ parsed[l].parent = parsed[e].id
        /\ parsed[e].id \notin ClosureIds(parsed, outputs[k].layer_id)
        /\ parsed[n].parent \notin {None, "0", outputs[k].layer_id}
        /\ \E re, rl, rn \in 1..Len(outputs[k].root) :
            /\ outputs[k].root[re] = [parsed[e] EXCEPT !.parent = outputs[k].layer_id]
            /\ outputs[k].root[re] # parsed[e]
            /\ outputs[k].root[rl] = [parsed[l] EXCEPT !.parent = outputs[k].layer_id]
            /\ outputs[k].root[rn] = parsed[n]

----------------------------------------------------------------------------
(* C6 *)

\* the document _export_layer builds for the layer at position li from the
\* tree as parsed and the indices of that tree, the sets iterated in some order
FreshExport(li) ==
    LET idx  == BuildIdIndex(parsed)
        kids == BuildChildren(parsed)
        ins  == _collect_cells_for_layer(parsed, kids, parsed[li].id)
        o1   == CHOOSE o \in Perms(InLayerToAdd(parsed, idx, li, ins)) : TRUE
        o2   == CHOOSE o \in Perms(CrossToAdd(parsed, idx, kids, li, ins)) : TRUE
    IN  ExportWith(parsed, idx, kids, li, ins, o1, o2)

\* the scaffolding and the layer cell, which head every root container
HeadLen(li) == Len(_add_base_cells(parsed)) + 1

SameDocument(out, fresh) ==
    /\ out.name = fresh.name
    /\ out.out_name = fresh.out_name
    /\ Len(out.root) = Len(fresh.root)
    /\ SubSeq(out.root, 1, HeadLen(out.layer)) = SubSeq(fresh.root, 1, HeadLen(out.layer))
    /\ SeqToSet(out.root) = SeqToSet(fresh.root)

\* C6: once the indices are built, the source tree is the tree as parsed and
\* id_index and children are the indices of that tree, whatever has been
\* exported; and the document built for each layer is, up to the order of
\* its elements, the one an export of that layer alone from the tree as
\* parsed builds
C6_NonMutation ==
    pc \in {"export", "done"} =>
        /\ doc = parsed
        /\ id_index = BuildIdIndex(parsed)
        /\ children = BuildChildren(parsed)
        /\ \A k \in 1..Len(outputs) :
                SameDocument(outputs[k], FreshExport(outputs[k].layer))

\* a later layer has been exported after a layer whose output holds a
\* re-parented copy of an edge, and the edge has its parent in the source
C6_Witness ==
    /\ pc = "done"
    /\ \E k \in 1..Len(outputs) : \E e \in 1..Len(parsed) :
        /\ k < Len(outputs)
        /\ parsed[e].edge = "1"
        /\ doc[e] = parsed[e]
        /\ \E r \in 1..Len(outputs[k].root) :
            /\ outputs[k].root[r] = [parsed[e] EXCEPT !.parent = outputs[k].layer_id]
            /\ outputs[k].root[r] # parsed[e]
        /\ HasId(outputs[k + 1].root, parsed[e].id)

----------------------------------------------------------------------------
(* C7 *)

\* C7: the second run of the tool on the same input leaves, file for file,
\* the documents the first run left, the order of the elements included
C7_Deterministic ==
    (run = 2 /\ pc = "done") => files = prevFiles

----------------------------------------------------------------------------
(* C8 *)

NoRepeat(log) == \A i, j \in 1..Len(log) : i # j => log[i] # log[j]

\* C8: on every source, with or without cycles in the parent references,
\* _top_layer_id returns within one iteration per element and one more,
\* _collect_cells_for_layer empties its queue within one iteration per
\* element and one more and adds no id twice, the program can take a step
\* in every state but its last, and at its end every layer has its document
C8_Termination ==
    /\ topSt.iters <= Len(doc) + 1
    /\ bfs.iters <= Len(doc) + 1
    /\ NoRepeat(addLog)
    /\ Cardinality(bfs.result_ids) = Len(addLog)
    /\ (pc \notin {"done", "error"} => ENABLED NextWalk)
    /\ (pc = "done" => Len(outputs) = Len(layers))

\* the parent references form a cycle below a layer: the traversal of that
\* layer met an id again and skipped it, the ancestor walk stopped at an id
\* it had seen, and every layer is exported
C8_Witness ==
    /\ pc = "done"
    /\ \E x \in 1..Len(parsed) :
        /\ parsed[x].id # None
        /\ parsed[x].id \in Ancestors(parsed, x)
        /\ parsed[x].id \in bfs.result_ids
    /\ bfs.iters > Len(addLog)
    /\ topSt.returned
    /\ topSt.ret = None
    /\ parsed[topSt.cur].parent \in topSt.seen
    /\ topSt.iters > Cardinality(topSt.seen)

----------------------------------------------------------------------------
(* C9 *)

\* C9: when export_layers is through, the destination holds as many
\* documents as the source has layers, and the document of every layer
C9_OneFilePerLayer ==
    pc = "done" =>
        /\ Cardinality(DOMAIN files) = Len(layers)
        /\ \A k \in 1..Len(outputs) :
            \E f \in DOMAIN files :
                files[f] = [name |-> outputs[k].name, root |-> outputs[k].root]

----------------------------------------------------------------------------
(* C10 *)

\* C10: sanitize_filename returns a string that is not empty, is made of
\* [A-Za-z0-9_.-] only and neither starts nor ends with an underscore
C10_SanitizedName ==
    pc = "sanitized" =>
        /\ fname # <<>>
        /\ \A i \in 1..Len(fname) : fname[i] \in AsciiSafe
        /\ fname[1] # "_"
        /\ fname[Len(fname)] # "_"

====
